---------------------------- MODULE Spec2Model ----------------------------
(***************************************************************************)
(* HBOS, the histogram-based outlier detector of pyod/models/hbos.py.      *)
(*                                                                         *)
(* Real numbers are exact rationals <<n, d>> (d > 0, lowest terms), so the *)
(* model follows the code in exact arithmetic; floating-point rounding is  *)
(* not modelled.  A value log2(x) is kept as the record [log2 |-> x]: a    *)
(* sum of logarithms is the logarithm of the product, a sign inversion the *)
(* logarithm of the reciprocal, and log2 is strictly increasing, so that   *)
(* sums, inversions, minima and equalities of scores are exact.            *)
(***************************************************************************)
EXTENDS Integers, Sequences, FiniteSets

VARIABLES obj, n_bins, alpha, tol, attrs, hist_, bin_edges_,
          decision_scores_, call, fit_done

vars == <<obj, n_bins, alpha, tol, attrs, hist_, bin_edges_,
          decision_scores_, call, fit_done>>

\* ------------------------------------------------------------ bounds
MaxSamples == 2
MaxBins == 2

\* The feature counts of the matrices tried: each feature is processed
\* independently, two features give a query with fewer and one with more
\* features than the fit.
FeatureCounts == {1, 2}

\* ------------------------------------------------------- exact rationals
Abs(x) == IF x < 0 THEN -x ELSE x

RECURSIVE GCD(_, _)
GCD(a, b) == IF b = 0 THEN a ELSE GCD(b, a % b)

Frac(n, d) ==
    LET g == GCD(Abs(n), Abs(d))
        s == IF d < 0 THEN -1 ELSE 1
    IN  <<(s * n) \div g, (s * d) \div g>>

Zero == <<0, 1>>
One == <<1, 1>>
Half == <<1, 2>>
RAdd(a, b) == Frac(a[1] * b[2] + b[1] * a[2], a[2] * b[2])
RSub(a, b) == Frac(a[1] * b[2] - b[1] * a[2], a[2] * b[2])
RMul(a, b) == Frac(a[1] * b[1], a[2] * b[2])
RDiv(a, b) == Frac(a[1] * b[2], a[2] * b[1])
RLt(a, b) == a[1] * b[2] < b[1] * a[2]
RLe(a, b) == a[1] * b[2] <= b[1] * a[2]
RMinOf(S) == CHOOSE x \in S : \A y \in S : RLe(x, y)
RMaxOf(S) == CHOOSE x \in S : \A y \in S : RLe(y, x)

RECURSIVE RSum(_)
RSum(s) == IF s = <<>> THEN Zero ELSE RAdd(s[1], RSum(Tail(s)))

Range(s) == {s[k] : k \in 1..Len(s)}

\* The sequence a function over 1..n is, as an explicit tuple.
Tuple(f) == f \o <<>>

\* Let(v, F) is F(v), with v evaluated once however often F uses it.
Let(v, F(_)) == CHOOSE r \in {F(x) : x \in {v}} : TRUE

\* ------------------------------------------------------- log-domain values
np_log2(x) == [log2 |-> x]
LogAdd(a, b) == [log2 |-> RMul(a.log2, b.log2)]
LogNeg(a) == [log2 |-> RDiv(One, a.log2)]
LogZero == [log2 |-> One]
np_min(s) == [log2 |-> RMinOf({s[k].log2 : k \in 1..Len(s)})]

RECURSIVE LogSum(_)
LogSum(s) == IF s = <<>> THEN LogZero ELSE LogAdd(s[1], LogSum(Tail(s)))

\* ------------------------------------------------------------ matrices
\* A matrix is a sequence of rows, a row a sequence of rationals.
NSamples(X) == Len(X)
NFeatures(X) == Len(X[1])
Column(X, i) == Tuple([j \in 1..Len(X) |-> X[j][i]])

\* sklearn's check_array: a two-dimensional numeric matrix with at least one
\* sample and one feature, or ValueError.
check_array(X) == Len(X) >= 1 /\ Len(X[1]) >= 1

\* check_parameter(v, 0, 1): v in the open interval (0, 1), or ValueError.
check_parameter(v, low, high) == RLt(low, v) /\ RLt(v, high)

\* ------------------------------------------------------------ numpy
np_zeros(rows, cols) == Tuple([i \in 1..cols |-> Tuple([b \in 1..rows |-> Zero])])

np_linspace(start, stop, num) ==
    Tuple([k \in 1..num |->
        RAdd(start, RDiv(RMul(<<k - 1, 1>>, RSub(stop, start)), <<num - 1, 1>>))])

\* A variant of histogram_bin with every bin right-closed (e_b, e_b+1] and
\* the first one closed.
histogram_bin_right_closed(v, edges) ==
    LET n == Len(edges) - 1
    IN  IF v = edges[1] THEN 1
        ELSE CHOOSE b \in 1..n : RLt(edges[b], v) /\ RLe(v, edges[b + 1])

\* np.histogram's bin of a value: every bin is half-open [e_b, e_b+1) but
\* the last, which is closed.
histogram_bin(v, edges) ==
    LET n == Len(edges) - 1
    IN  IF v = edges[n + 1] THEN n
        ELSE CHOOSE b \in 1..n : RLe(edges[b], v) /\ RLt(v, edges[b + 1])

\* np.histogram(a, bins=bins, density=True) for bins >= 1: equal-width bins
\* over [min, max], widened by 0.5 on each side when min = max.
np_histogram(a, bins) ==
    LET lo == RMinOf(Range(a))
        hi == RMaxOf(Range(a))
        first_edge == IF lo = hi THEN RSub(lo, Half) ELSE lo
        last_edge == IF lo = hi THEN RAdd(hi, Half) ELSE hi
    IN  Let(np_linspace(first_edge, last_edge, bins + 1), LAMBDA edges :
        Let(Tuple([j \in 1..Len(a) |-> histogram_bin(a[j], edges)]), LAMBDA bin :
          LET n == [b \in 1..bins |->
                      Cardinality({j \in 1..Len(a) : bin[j] = b})]
              db == [b \in 1..bins |-> RSub(edges[b + 1], edges[b])]
          IN  [hist |-> Tuple([b \in 1..bins |->
                           RDiv(RDiv(<<n[b], 1>>, db[b]), <<Len(a), 1>>)]),
               bin_edges |-> edges]))

\* A variant of np_digitize with right=False: bins[i-1] <= x < bins[i].
np_digitize_left(x, bins) == Cardinality({k \in 1..Len(bins) : RLe(bins[k], x)})

\* np.digitize(x, bins, right=True): the i with bins[i-1] < x <= bins[i],
\* that is the number of edges strictly below x.
np_digitize(x, bins) == Cardinality({k \in 1..Len(bins) : RLt(bins[k], x)})

\* Python indexing a[k] of a sequence: k from 0, negative k from the end.
PyIndexOk(a, k) == -Len(a) <= k /\ k < Len(a)
PyIndex(a, k) == IF k >= 0 THEN a[k + 1] ELSE a[Len(a) + k + 1]


\* ------------------------------------------------------------ HBOS methods
\* The outcome of a call: "ok" or the name of the exception raised.
Ok(v) == [err |-> "", val |-> v]
Raise(e) == [err |-> e, val |-> LogZero]

\* A variant of within_tol that leaves tol out.
within_tol_without_tol(dist, bin_width, t) == RLe(dist, bin_width)

\* dist <= bin_width * self.tol
within_tol(dist, bin_width, t) == RLe(dist, RMul(bin_width, t))

\* The body of the loop over j of _calculate_outlier_scores for feature i
\* (0-based in the code, 1-based here) and the value x = X[j, i].
outlier_score(x, i, self) ==
    Let(self.bin_edges_[i], LAMBDA edges :
    Let(np_digitize(x, edges), LAMBDA bin_ind :
    Let(Tuple([b \in 1..Len(self.hist_[i]) |->
            np_log2(RAdd(self.hist_[i][b], self.alpha))]), LAMBDA out_score_i :
      LET lowest == IF out_score_i = <<>> THEN Raise("ValueError")
                    ELSE Ok(np_min(out_score_i))
      IN  IF bin_ind = 0 THEN
              IF ~PyIndexOk(edges, 1) THEN Raise("IndexError")
              ELSE LET dist == RSub(PyIndex(edges, 0), x)
                       bin_width == RSub(PyIndex(edges, 1), PyIndex(edges, 0))
                   IN  IF within_tol(dist, bin_width, self.tol)
                       THEN IF PyIndexOk(out_score_i, 0)
                            THEN Ok(PyIndex(out_score_i, 0))
                            ELSE Raise("IndexError")
                       ELSE lowest
          ELSE IF bin_ind = self.n_bins + 1 THEN
              IF ~PyIndexOk(edges, -2) THEN Raise("IndexError")
              ELSE LET dist == RSub(x, PyIndex(edges, -1))
                       bin_width == RSub(PyIndex(edges, -1), PyIndex(edges, -2))
                   IN  IF within_tol(dist, bin_width, self.tol)
                       THEN IF PyIndexOk(out_score_i, self.n_bins - 1)
                            THEN Ok(PyIndex(out_score_i, self.n_bins - 1))
                            ELSE Raise("IndexError")
                       ELSE lowest
          ELSE IF PyIndexOk(out_score_i, bin_ind - 1)
               THEN Ok(PyIndex(out_score_i, bin_ind - 1))
               ELSE Raise("IndexError"))))

\* _calculate_outlier_scores(X): the features of X are walked in order and
\* column i of bin_edges_ and hist_ is read for each, whatever the number of
\* columns the fit stored; the first exception ends the call.
calculate_outlier_scores(X, self) ==
    LET n_samples == NSamples(X)
        n_features == NFeatures(X)
        cell(j, i) == IF i > Len(self.bin_edges_) \/ i > Len(self.hist_)
                      THEN Raise("IndexError")
                      ELSE outlier_score(X[j][i], i, self)
    IN  Let(Tuple([j \in 1..n_samples |->
                Tuple([i \in 1..n_features |-> cell(j, i)])]), LAMBDA r :
          LET failing == {i \in 1..n_features :
                            \E j \in 1..n_samples : r[j][i].err # ""}
          IN  IF failing # {}
              THEN LET i == CHOOSE k \in failing : \A m \in failing : k <= m
                       j == CHOOSE k \in 1..n_samples :
                               /\ r[k][i].err # ""
                               /\ \A m \in 1..n_samples :
                                     r[m][i].err # "" => k <= m
                   IN  [err |-> r[j][i].err, outlier_scores |-> <<>>]
              ELSE [err |-> "",
                    outlier_scores |->
                        Tuple([j \in 1..n_samples |->
                            Tuple([i \in 1..n_features |-> r[j][i].val])])])

\* np.sum(outlier_scores, axis=1) * -1
inverted_sums(outlier_scores) ==
    Tuple([j \in 1..Len(outlier_scores) |-> LogNeg(LogSum(outlier_scores[j]))])

\* assert np.isclose(1, np.sum(hist * np.diff(bin_edges)), atol=0.1), with
\* numpy's default rtol = 1e-05.
density_assertion(h) ==
    LET terms == Tuple([b \in 1..Len(h.hist) |->
                     RMul(h.hist[b], RSub(h.bin_edges[b + 1], h.bin_edges[b]))])
        mass == RSum(terms)
        diff == RSub(One, mass)
        gap == IF RLt(diff, Zero) THEN RSub(Zero, diff) ELSE diff
    IN  RLe(gap, RAdd(<<1, 10>>, RMul(<<1, 100000>>, mass)))

\* Lines 65-74 of fit for a matrix and a bin count: the arrays are allocated
\* anew, then filled feature by feature, each feature's assertion following
\* its assignment.
new_histograms(X, bins) ==
    LET n_features == NFeatures(X)
        zh == np_zeros(bins, n_features)
        ze == np_zeros(bins + 1, n_features)
    IN  IF bins < 1
        THEN \* np.histogram: `bins` must be positive
             [err |-> "ValueError", hist_ |-> zh, bin_edges_ |-> ze]
        ELSE Let(Tuple([i \in 1..n_features |->
                     np_histogram(Column(X, i), bins)]), LAMBDA H :
             Let({i \in 1..n_features : ~density_assertion(H[i])}, LAMBDA bad :
               LET stop == IF bad = {} THEN n_features
                           ELSE CHOOSE k \in bad : \A m \in bad : k <= m
               IN  [err |-> IF bad = {} THEN "" ELSE "AssertionError",
                    hist_ |-> Tuple([i \in 1..n_features |->
                                  IF i <= stop THEN H[i].hist ELSE zh[i]]),
                    bin_edges_ |-> Tuple([i \in 1..n_features |->
                                  IF i <= stop THEN H[i].bin_edges ELSE ze[i]])]))

\* A variant of build_histograms that keeps the histograms the instance
\* holds when there are any, and builds them only on the first fit.
build_histograms_once(X, self) ==
    IF "hist_" \in self.attrs /\ self.hist_ # <<>> /\ self.hist_[1] # <<>>
    THEN [err |-> "", hist_ |-> self.hist_, bin_edges_ |-> self.bin_edges_]
    ELSE new_histograms(X, self.n_bins)

\* Lines 64-74 of fit: the histograms of X for the n_bins of the instance
\* replace whatever it held.
build_histograms(X, self) == new_histograms(X, self.n_bins)

\* A variant of fit_scores that stores the sums without inverting them.
fit_scores_not_inverted(X, s1) ==
    Let(calculate_outlier_scores(X, s1), LAMBDA os :
        IF os.err # "" THEN [self |-> s1, outcome |-> os.err]
        ELSE [self |-> [s1 EXCEPT !.attrs = @ \cup {"decision_scores_"},
                                  !.decision_scores_ =
                                      Tuple([j \in 1..Len(os.outlier_scores) |->
                                          LogSum(os.outlier_scores[j])])],
              outcome |-> "ok"])

\* Lines 76-81 of fit, on the instance holding the new histograms.
fit_scores(X, s1) ==
    Let(calculate_outlier_scores(X, s1), LAMBDA os :
        IF os.err # "" THEN [self |-> s1, outcome |-> os.err]
        ELSE [self |-> [s1 EXCEPT !.attrs = @ \cup {"decision_scores_"},
                                  !.decision_scores_ =
                                      inverted_sums(os.outlier_scores)],
              outcome |-> "ok"])

\* fit(X): the instance afterwards, and the outcome of the call.
\* _set_n_classes and _process_decision_scores belong to the base class and
\* touch none of the fields kept here.
fit(X, self) ==
    IF ~check_array(X) THEN [self |-> self, outcome |-> "ValueError"]
    ELSE IF self.n_bins < 0
    THEN \* np.zeros: negative dimensions are not allowed
         [self |-> self, outcome |-> "ValueError"]
    ELSE Let(build_histograms(X, self), LAMBDA b :
         Let([self EXCEPT !.attrs = @ \cup {"hist_", "bin_edges_"},
                          !.hist_ = b.hist_,
                          !.bin_edges_ = b.bin_edges_], LAMBDA s1 :
             IF b.err # "" THEN [self |-> s1, outcome |-> b.err]
             ELSE fit_scores(X, s1)))

\* check_is_fitted(self, ['hist_', 'bin_edges_']): every attribute named is
\* present on the instance, or NotFittedError.
check_is_fitted(self, attributes) == attributes \subseteq self.attrs

\* decision_function(X): the outcome, the local outlier_scores and the
\* value returned.
decision_function(X, self) ==
    IF ~check_is_fitted(self, {"hist_", "bin_edges_"})
    THEN [outcome |-> "NotFittedError", outlier_scores |-> <<>>, ret |-> <<>>]
    ELSE IF ~check_array(X)
    THEN [outcome |-> "ValueError", outlier_scores |-> <<>>, ret |-> <<>>]
    ELSE Let(calculate_outlier_scores(X, self), LAMBDA os :
             IF os.err # ""
             THEN [outcome |-> os.err, outlier_scores |-> <<>>, ret |-> <<>>]
             ELSE [outcome |-> "ok", outlier_scores |-> os.outlier_scores,
                   ret |-> inverted_sums(os.outlier_scores)])

\* __init__(n_bins, alpha, tol): the attributes are assigned, then alpha and
\* tol are checked; n_bins is not.
init_accepts(nb, a, t) == check_parameter(a, Zero, One) /\ check_parameter(t, Zero, One)

\* ------------------------------------------------------------ inputs
\* Training values 0 and 1; query values from -1 to 2 in steps of 1/2.
TrainVals == {Zero, One}
QueryVals == {Frac(k, 2) : k \in (-2)..4}
NBinsArgs == (-1)..MaxBins
AlphaArgs == {Zero, <<1, 10>>, One}
TolArgs == {Zero, Half, One}

Sorted(X) == \A j \in 1..(Len(X) - 1) : \A i \in 1..Len(X[1]) :
                (\A m \in 1..(i - 1) : X[j][m] = X[j + 1][m]) =>
                    RLe(X[j][i], X[j + 1][i])

\* Training matrices, rows in lexicographic order (a permutation of the rows
\* permutes decision_scores_ and changes nothing else).
TrainMatrices ==
    {X \in UNION {[1..s -> [1..f -> TrainVals]] :
                    s \in 1..MaxSamples, f \in FeatureCounts} : Sorted(X)}

\* Query matrices of one row holding the same value in every feature.
QueryRows == {<<Tuple([i \in 1..f |-> v])>> : f \in FeatureCounts, v \in QueryVals}

\* Matrices check_array rejects: no sample, no feature.
BadMatrices == {<<>>, <<<<>>>>}

\* ------------------------------------------------------------ state machine
Self == [n_bins |-> n_bins, alpha |-> alpha, tol |-> tol, attrs |-> attrs,
         hist_ |-> hist_, bin_edges_ |-> bin_edges_,
         decision_scores_ |-> decision_scores_]

\* The number of bins of the histograms the instance holds, -1 with none.
BinsHeld == IF "hist_" \in attrs /\ hist_ # <<>> THEN Len(hist_[1]) ELSE -1

\* call records the last call made: its operation, the configuration it ran
\* under, its matrix, its outcome ("ok" or the exception raised), the local
\* outlier_scores and the value returned, and the bins held when it began.
\* fit_done records that some fit has returned normally.
Init ==
    /\ obj = "none"
    /\ n_bins = 0 /\ alpha = Zero /\ tol = Zero
    /\ attrs = {} /\ hist_ = <<>> /\ bin_edges_ = <<>> /\ decision_scores_ = <<>>
    /\ call = [op |-> "none", cfg |-> <<0, Zero, Zero>>, X |-> <<>>,
               outcome |-> "ok", outlier_scores |-> <<>>, ret |-> <<>>,
               bins_before |-> -1]
    /\ fit_done = FALSE

\* HBOS(n_bins=nb, alpha=a, tol=t)
HBOS_init(nb, a, t) ==
    /\ obj = "none"
    /\ call' = [op |-> "__init__", cfg |-> <<nb, a, t>>, X |-> <<>>,
                outcome |-> IF init_accepts(nb, a, t) THEN "ok" ELSE "ValueError",
                outlier_scores |-> <<>>, ret |-> <<>>, bins_before |-> -1]
    /\ IF init_accepts(nb, a, t)
       THEN obj' = "HBOS" /\ n_bins' = nb /\ alpha' = a /\ tol' = t
       ELSE UNCHANGED <<obj, n_bins, alpha, tol>>
    /\ UNCHANGED <<attrs, hist_, bin_edges_, decision_scores_, fit_done>>

\* fit(X), or set_params(n_bins=nb).fit(X) when nb differs from n_bins: the
\* bin count of an instance is changed only to fit it again, on a matrix
\* check_array accepts and to a positive count.
Fit(nb, X) ==
    /\ obj = "HBOS"
    /\ nb = n_bins \/ (nb >= 1 /\ check_array(X))
    /\ \E s \in {[Self EXCEPT !.n_bins = nb]} : \E r \in {fit(X, s)} :
           /\ n_bins' = nb
           /\ attrs' = r.self.attrs
           /\ hist_' = r.self.hist_
           /\ bin_edges_' = r.self.bin_edges_
           /\ decision_scores_' = r.self.decision_scores_
           /\ call' = [op |-> "fit", cfg |-> <<nb, alpha, tol>>, X |-> X,
                       outcome |-> r.outcome, outlier_scores |-> <<>>,
                       ret |-> <<>>, bins_before |-> BinsHeld]
           /\ fit_done' = (fit_done \/ r.outcome = "ok")
    /\ UNCHANGED <<obj, alpha, tol>>

\* decision_function(X)
DecisionFunction(X) ==
    /\ obj = "HBOS"
    /\ \E s \in {Self} : \E r \in {decision_function(X, s)} :
           call' = [op |-> "decision_function", cfg |-> <<n_bins, alpha, tol>>,
                    X |-> X, outcome |-> r.outcome,
                    outlier_scores |-> r.outlier_scores, ret |-> r.ret,
                    bins_before |-> BinsHeld]
    /\ UNCHANGED <<obj, n_bins, alpha, tol, attrs, hist_, bin_edges_,
                   decision_scores_, fit_done>>

\* The matrices scored: the query rows, the rejected matrices, and the
\* training matrix of the fit that has just returned.
Queries ==
    QueryRows \cup BadMatrices \cup
        (IF call.op = "fit" /\ call.outcome = "ok" THEN {call.X} ELSE {})

Next ==
    \/ \E nb \in NBinsArgs, a \in AlphaArgs, t \in TolArgs : HBOS_init(nb, a, t)
    \/ \E nb \in NBinsArgs, X \in TrainMatrices \cup BadMatrices : Fit(nb, X)
    \/ \E X \in Queries : DecisionFunction(X)

Spec == Init /\ [][Next]_vars


\* ------------------------------------------------------------ the example
\* The example of the specification: one feature, nine training values,
\* n_bins = 4, under the default alpha = 0.1 and tol = 0.5.
ExampleX == <<<<One>>, <<<<2, 1>>>>, <<<<2, 1>>>>, <<<<3, 1>>>>, <<<<3, 1>>>>,
              <<<<3, 1>>>>, <<<<4, 1>>>>, <<<<4, 1>>>>, <<<<5, 1>>>>>>
ExampleQueries == {<<<<Frac(k, 4)>>>> : k \in (-8)..48}

InitExample ==
    /\ obj = "HBOS"
    /\ n_bins = 4 /\ alpha = <<1, 10>> /\ tol = Half
    /\ attrs = {} /\ hist_ = <<>> /\ bin_edges_ = <<>> /\ decision_scores_ = <<>>
    /\ call = [op |-> "__init__", cfg |-> <<4, <<1, 10>>, Half>>, X |-> <<>>,
               outcome |-> "ok", outlier_scores |-> <<>>, ret |-> <<>>,
               bins_before |-> -1]
    /\ fit_done = FALSE

NextExample ==
    \/ Fit(n_bins, ExampleX)
    \/ \E X \in ExampleQueries : DecisionFunction(X)

SpecExample == InitExample /\ [][NextExample]_vars

\* ------------------------------------------------------------ properties
Fitted == {"hist_", "bin_edges_"} \subseteq attrs
ScoringCall == call.op = "decision_function" /\ call.outcome = "ok"
Cells(X) == {<<j, i>> : j \in 1..Len(X), i \in 1..Len(X[1])}

\* The score log2(density + alpha) of bin b of feature i.
BinScore(i, b) == np_log2(RAdd(hist_[i][b], alpha))
\* The lowest score of the bins of feature i.
MinBinScore(i) ==
    CHOOSE s \in {BinScore(i, b) : b \in 1..n_bins} :
        \A b \in 1..n_bins : RLe(s.log2, BinScore(i, b).log2)

\* C1: a decision_function call made while no fit has completed raises the
\* not-fitted error and returns no scores.
C1_NotFittedUntilFitCompletes ==
    (call.op = "decision_function" /\ ~fit_done) =>
        (call.outcome = "NotFittedError" /\ call.ret = <<>>)

\* C2: a fit or decision_function call that ends in an error leaves hist_,
\* bin_edges_, decision_scores_ and the presence of each as they were.
C2_ErrorLeavesFittedState ==
    [][(call'.op \in {"fit", "decision_function"} /\ call'.outcome # "ok") =>
          UNCHANGED <<attrs, hist_, bin_edges_, decision_scores_>>]_vars

\* C3: on a fitted instance, decision_function on a matrix whose number of
\* features differs from that of the fit raises an error.
C3_FeatureMismatchRaises ==
    (/\ call.op = "decision_function" /\ fit_done /\ Fitted
     /\ check_array(call.X)
     /\ NFeatures(call.X) # Len(hist_)) => call.outcome # "ok"

\* C4: every instance constructed has n_bins positive and alpha and tol in
\* (0, 1): a configuration error is raised by the constructor.
C4_ConfigurationCheckedAtConstruction ==
    obj = "HBOS" =>
        /\ n_bins >= 1
        /\ check_parameter(alpha, Zero, One)
        /\ check_parameter(tol, Zero, One)

\* The bin b with edges[b] < v <= edges[b+1], the first bin for v = edges[1].
RightClosedBin(v, edges) ==
    IF v = edges[1] THEN 1
    ELSE CHOOSE b \in 1..(Len(edges) - 1) : RLt(edges[b], v) /\ RLe(v, edges[b + 1])

\* C5: a query value inside the fitted range of its feature is scored
\* log2(density[b] + alpha) for the bin b with edges[b] < v <= edges[b+1],
\* the first bin when v is the global minimum.
C5_InRangeScore ==
    ScoringCall =>
        \A c \in Cells(call.X) :
            LET v == call.X[c[1]][c[2]]
                edges == bin_edges_[c[2]]
            IN  (n_bins >= 1 /\ RLe(edges[1], v) /\ RLe(v, edges[n_bins + 1])) =>
                    call.outlier_scores[c[1]][c[2]] =
                        BinScore(c[2], RightClosedBin(v, edges))

\* A value on an interior edge, between two bins of different density, has
\* been scored.
C5_Witness ==
    /\ ScoringCall /\ n_bins >= 2
    /\ \E c \in Cells(call.X) :
          /\ call.X[c[1]][c[2]] = bin_edges_[c[2]][2]
          /\ hist_[c[2]][1] # hist_[c[2]][2]

\* What the boundary policy gives a value v outside the edges of feature i.
BoundaryScore(v, i) ==
    LET edges == bin_edges_[i]
        below == RLt(v, edges[1])
        dist == IF below THEN RSub(edges[1], v) ELSE RSub(v, edges[n_bins + 1])
        bin_width == IF below THEN RSub(edges[2], edges[1])
                     ELSE RSub(edges[n_bins + 1], edges[n_bins])
    IN  IF RLe(dist, RMul(tol, bin_width))
        THEN BinScore(i, IF below THEN 1 ELSE n_bins)
        ELSE MinBinScore(i)

Ninth(k) == <<k, 9>>
ExampleFitted == fit_done /\ Fitted
ExampleScores(v) ==
    call.op = "decision_function" /\ call.X = <<<<v>>>> /\ ExampleFitted

\* C7 as stated: the example's edges are [1,2,3,4,5] and its densities
\* [1,2,3,2]/9; 3.5 is scored with the bin 3 < v <= 4 and 10 with the
\* minimum density, the first bin's.
C7_ExampleAsStated ==
    /\ ExampleFitted =>
          /\ bin_edges_ = <<<<One, <<2, 1>>, <<3, 1>>, <<4, 1>>, <<5, 1>>>>>>
          /\ hist_ = <<<<Ninth(1), Ninth(2), Frac(3, 9), Ninth(2)>>>>
    /\ ExampleScores(<<7, 2>>) =>
          call.outlier_scores = <<<<BinScore(1, 3)>>>>
    /\ ExampleScores(<<10, 1>>) =>
          call.outlier_scores = <<<<BinScore(1, 1)>>>>

\* C7 amended: the densities are [1,2,3,3]/9, the last bin holding both 4s
\* and the 5; the edges and the two scores are as stated.
C7_Example ==
    /\ ExampleFitted =>
          /\ bin_edges_ = <<<<One, <<2, 1>>, <<3, 1>>, <<4, 1>>, <<5, 1>>>>>>
          /\ hist_ = <<<<Ninth(1), Ninth(2), Frac(3, 9), Frac(3, 9)>>>>
    /\ ExampleScores(<<7, 2>>) =>
          /\ call.outcome = "ok"
          /\ call.outlier_scores = <<<<BinScore(1, 3)>>>>
    /\ ExampleScores(<<10, 1>>) =>
          /\ call.outcome = "ok"
          /\ call.outlier_scores = <<<<BinScore(1, 1)>>>>
          /\ BinScore(1, 1) = MinBinScore(1)

\* The example has been fitted and 10 scored.
C7_Witness == ExampleScores(<<10, 1>>) /\ call.outcome = "ok"

\* C8: decision_function on the matrix a fit has just returned from gives
\* decision_scores_, element by element, each the inverted sum over the
\* features of the per-feature scores.
C8_TrainingScoresAgree ==
    [][(/\ call.op = "fit" /\ call.outcome = "ok"
        /\ call'.op = "decision_function" /\ call'.X = call.X) =>
          /\ call'.outcome = "ok"
          /\ call'.ret = decision_scores_
          /\ \A j \in 1..Len(call.X) :
                call'.ret[j] = LogNeg(LogSum(call'.outlier_scores[j]))]_vars

\* The training matrix, of several samples, has been scored again, to sums
\* the inversion changes.
C8_Witness ==
    /\ ScoringCall /\ fit_done
    /\ Len(call.X) >= 2
    /\ call.ret = decision_scores_
    /\ call.ret[1] # LogSum(call.outlier_scores[1])

\* C9: a fit that returns normally leaves exactly the histograms of its
\* matrix and n_bins; decision_function changes no field; and scoring the
\* same matrix twice in a row returns the same.
C9_HistogramsOfLastFit ==
    [][/\ (call'.op = "fit" /\ call'.outcome = "ok") =>
             /\ Len(hist_') = NFeatures(call'.X)
             /\ Len(bin_edges_') = NFeatures(call'.X)
             /\ \A i \in 1..NFeatures(call'.X) :
                   /\ hist_'[i] = np_histogram(Column(call'.X, i), n_bins').hist
                   /\ bin_edges_'[i] =
                          np_histogram(Column(call'.X, i), n_bins').bin_edges
                   /\ Len(hist_'[i]) = n_bins'
                   /\ Len(bin_edges_'[i]) = n_bins' + 1
       /\ call'.op = "decision_function" =>
             UNCHANGED <<n_bins, alpha, tol, attrs, hist_, bin_edges_,
                         decision_scores_>>
       /\ (/\ call.op = "decision_function" /\ call'.op = "decision_function"
           /\ call'.X = call.X) =>
             (call'.outcome = call.outcome /\ call'.ret = call.ret)]_vars

\* An instance holding histograms has been fitted again with another n_bins.
C9_Witness ==
    /\ call.op = "fit" /\ call.outcome = "ok"
    /\ call.bins_before >= 1 /\ call.bins_before # n_bins
    /\ \A i \in 1..Len(hist_) : Len(hist_[i]) = n_bins

\* C10: every training value is scored log2(density + alpha) of the bin in
\* which the histogram construction counted it.
C10_CountedBinIsScoredBin ==
    (call.op = "fit" /\ call.outcome = "ok") =>
        \A c \in Cells(call.X) :
            LET v == call.X[c[1]][c[2]]
            IN  outlier_score(v, c[2], Self) =
                    Ok(BinScore(c[2], histogram_bin(v, bin_edges_[c[2]])))

=============================================================================
